---- MODULE Spec2Model ----
(***************************************************************************)
(* Model of luna/gateware/platform/luna_r0_3.py: the LUNA r0.3 platform    *)
(* descriptor (LUNAPlatformRev0D3) and its toolchain hooks                 *)
(* toolchain_prepare / toolchain_program / toolchain_flash /               *)
(* toolchain_erase.                                                        *)
(*                                                                         *)
(* The debug probe (ApolloDebugger), its jtag / flash context managers,   *)
(* the programmers and ensure_flash_gateware_loaded are external services: *)
(* every call to one of them is a step whose outcome (returns / raises)    *)
(* is chosen nondeterministically.  Each call keeps a trace of the         *)
(* external calls it has issued, in order, with their outcome.             *)
(***************************************************************************)
EXTENDS Integers, Sequences, FiniteSets, TLC

(***************************************************************************)
(* Bounds and input universes                                              *)
(***************************************************************************)
\* Number of distinct values a caller may pass for a toolchain option,
\* besides the board's own ecppack_opts string.
NumCallerValues == 2

Callers == {1, 2}

\* The sequential specification has one caller.
MainCaller == 1

\* Build names passed by callers.
Names == {"top", "blinky"}

\* Marker for "argument not passed" (toolchain_flash has name="top").
NoArg == "<omitted>"

Fragments == {"fragA", "fragB"}

\* Keyword options a caller may pass to toolchain_prepare.
OptKeys == {"ecppack_opts", "nextpnr_opts"}

CallerValue(i) == IF i = 1 THEN "--seed 1" ELSE IF i = 2 THEN "--freq 2.4" ELSE "--other"

OptValues == {"--compress --freq 38.8"} \cup {CallerValue(i) : i \in 1..NumCallerValues}

\* All keyword-argument dictionaries over OptKeys.
KwargSets == UNION {[D -> OptValues] : D \in SUBSET OptKeys}

\* "{}.bit".format(name): the product file name for a build name.
BitFile(n) == <<n, ".bit">>

\* products objects handed to program / flash: the set of files they hold.
ProductSets == {{}, {BitFile("top")}, {BitFile("top"), BitFile("blinky")}}

\* Values of the LUNA_SPEED_GRADE environment variable; Unset = not defined.
Unset == "<unset>"

EnvValues == {Unset, "6"}

VARIABLES
    env,        \* os.environ["LUNA_SPEED_GRADE"], or Unset
    speed,      \* LUNAPlatformRev0D3.speed (class attribute)
    pc,         \* per caller: position inside the running call
    op,         \* per caller: the operation being run
    name,       \* per caller: the name argument of the call
    products,   \* per caller: the products argument of the call
    result,     \* per caller: "none" while running, "ok", or the raised error
    pending,    \* per caller: exception raised in a with-body, in flight
    held,       \* per caller: the sub-channel context entered ("none" if none)
    trace,      \* per caller: external calls issued by the current call
    prepIn,     \* arguments of the last toolchain_prepare call
    prepOut,    \* what the last toolchain_prepare call forwarded / raised
    prepTick    \* flips on every toolchain_prepare call

vars == <<env, speed, pc, op, name, products, result, pending, held, trace,
          prepIn, prepOut, prepTick>>

callVars == <<pc, op, name, products, result, pending, held, trace>>

prepVars == <<prepIn, prepOut, prepTick>>

descVars == <<env, speed>>

(***************************************************************************)
(* Descriptor: speed grade                                                 *)
(***************************************************************************)
\* os.getenv(key, default)
Getenv(e, default) == IF e = Unset THEN default ELSE e

\* speed = os.getenv("LUNA_SPEED_GRADE", "8"), evaluated in the class body.
ClassBodySpeed(e) == Getenv(e, "8")

(***************************************************************************)
(* Descriptor: I/O resources and connectors                                *)
(***************************************************************************)
\* Pins("A B C") is written as the sequence of its pin names.
Subsignal(n, pins) == [name |-> n, pins |-> pins]

Resource(n, number, subsignals) ==
    [name |-> n, number |-> number, subsignals |-> subsignals]

\* A resource made of one Pins(...) without subsignals.
PinResource(n, number, pins) == Resource(n, number, <<Subsignal("io", pins)>>)

\* DiffPairs(p, n): both pins of the pair belong to the subsignal.
DiffPairs(p, n) == <<p, n>>

UARTResource(number, rx, tx) ==
    Resource("uart", number, <<Subsignal("rx", <<rx>>), Subsignal("tx", <<tx>>)>>)

\* LEDResources(pins=...): one "led" resource per pin, numbered from 0.
LEDResources(pins) ==
    [i \in 1..Len(pins) |-> PinResource("led", i - 1, <<pins[i]>>)]

ULPIResource(n, number, data, clk, dir, nxt, stp, rst) ==
    Resource(n, number,
        <<Subsignal("data", data), Subsignal("clk", <<clk>>),
          Subsignal("dir", <<dir>>), Subsignal("nxt", <<nxt>>),
          Subsignal("stp", <<stp>>), Subsignal("rst", <<rst>>)>>)

resources ==
    << PinResource("clk_60MHz", 0, <<"A8">>),
       Resource("spi_flash", 0,
           <<Subsignal("sdi", <<"T8">>),
             Subsignal("sdo", <<"T7">>),
             Subsignal("cs",  <<"N8">>)>>),
       UARTResource(0, "R14", "T14"),
       Resource("debug_spi", 0,
           <<Subsignal("sck", <<"R13">>),
             Subsignal("sdi", <<"P13">>),
             Subsignal("sdo", <<"P11">>),
             Subsignal("cs",  <<"T13">>)>>) >>
    \o LEDResources(<<"T15", "R15", "R16", "P15", "P16", "P14">>)
    \o
    << ULPIResource("sideband_phy", 0,
           <<"R1", "P3", "P1", "P2", "N1", "M2", "M1", "L2">>,
           "P4", "T2", "R2", "R3", "T3"),
       ULPIResource("host_phy", 0,
           <<"F1", "F2", "E1", "E2", "D1", "E3", "C1", "C2">>,
           "J1", "G1", "G2", "H2", "J2"),
       ULPIResource("target_phy", 0,
           <<"E16", "F14", "F16", "F15", "G16", "G15", "H15", "J16">>,
           "C15", "D16", "E15", "D14", "C16"),
       PinResource("power_a_port", 0, <<"C14">>),
       PinResource("power_c_port", 0, <<"F13">>),
       PinResource("pass_through_vbus", 0, <<"B16">>),
       PinResource("target_c_to_a_fault", 0, <<"F12">>),
       PinResource("target_a_to_c_fault", 0, <<"E14">>),
       PinResource("target_5v_to_a_fault", 0, <<"B15">>),
       Resource("ram", 0,
           <<Subsignal("clk",   DiffPairs("B14", "A15")),
             Subsignal("dq",    <<"A11", "B10", "B12", "A12", "B11", "A10", "B9", "A9">>),
             Subsignal("rwds",  <<"A13">>),
             Subsignal("cs",    <<"A14">>),
             Subsignal("reset", <<"B13">>)>>),
       PinResource("user_io", 0, <<"C3">>),
       PinResource("user_io", 1, <<"D3">>) >>

\* Connector(name, number, "p1 p2 - ..."): header positions, "-" is a gap.
Connector(n, number, io) == [name |-> n, number |-> number, io |-> io]

connectors ==
    << Connector("pmod", 0,
           <<"A3", "A4", "A5", "A6", "-", "-", "C6", "B6", "C7", "B7", "-", "-">>),
       Connector("pmod", 1,
           <<"M5", "N5", "M4", "N3", "-", "-", "L4", "L5", "K4", "K5", "-", "-">>) >>

\* Every place of the table that names a pin:
\* <<"resource", i, j, k>> is pin k of subsignal j of resources[i].
ResourceSites ==
    UNION { UNION { {<<"resource", i, j, k>> :
                        k \in 1..Len(resources[i].subsignals[j].pins)} :
                    j \in 1..Len(resources[i].subsignals) } :
            i \in 1..Len(resources) }

\* Faulty variant: the gap marker is taken for a pin.
ConnectorSites_WithGaps ==
    UNION { {<<"connector", i, 0, k>> : k \in 1..Len(connectors[i].io)} :
            i \in 1..Len(connectors) }

\* <<"connector", i, 0, k>> is position k of connectors[i], gaps left out.
ConnectorSites ==
    UNION { {<<"connector", i, 0, k>> :
                k \in {p \in 1..Len(connectors[i].io) : connectors[i].io[p] # "-"}} :
            i \in 1..Len(connectors) }

PinSites == ResourceSites \cup ConnectorSites

\* The physical pin named at a site.
PinAt(site) ==
    IF site[1] = "resource"
    THEN resources[site[2]].subsignals[site[3]].pins[site[4]]
    ELSE connectors[site[2]].io[site[4]]

\* The pin table of the descriptor: the pin named at each place.
PinTable == [site \in PinSites |-> PinAt(site)]

\* The descriptor as it stands: its resolved speed grade and its pin table.
Descriptor == [speed |-> speed, pins |-> PinTable]

(***************************************************************************)
(* Trace helpers                                                           *)
(***************************************************************************)
Event(s, ok) == [step |-> s, ok |-> ok]

\* Number of times step s was issued in the current call of caller c.
Count(c, s) == Cardinality({i \in 1..Len(trace[c]) : trace[c][i].step = s})

\* Steps of the current call that raised.
FailedSteps(c) == {trace[c][i].step : i \in {j \in 1..Len(trace[c]) : ~trace[c][j].ok}}

\* Sequence of step names of the current call.
StepsOf(c) == [i \in 1..Len(trace[c]) |-> trace[c][i].step]

\* Some occurrence of step a precedes some occurrence of step b.
Before(c, a, b) ==
    \E i, j \in 1..Len(trace[c]) :
        i < j /\ trace[c][i].step = a /\ trace[c][j].step = b

(***************************************************************************)
(* toolchain_prepare                                                       *)
(***************************************************************************)
NoOpts == [k \in {} |-> "--seed 1"]

\* Faulty variant: the dictionaries are merged and the later one wins.
CallWithKwargs_LastWins(fragment, n, a, b) ==
    [error |-> "none", forwarded |-> TRUE,
     fragment |-> fragment, name |-> n,
     opts |-> [k \in DOMAIN a \cup DOMAIN b |->
                   IF k \in DOMAIN b THEN b[k] ELSE a[k]]]

\* Faulty variant: the dictionaries are merged and the board's entry wins
\* silently.
CallWithKwargs_FirstWins(fragment, n, a, b) ==
    [error |-> "none", forwarded |-> TRUE,
     fragment |-> fragment, name |-> n,
     opts |-> [k \in DOMAIN a \cup DOMAIN b |->
                   IF k \in DOMAIN a THEN a[k] ELSE b[k]]]

\* f(**a, **b): a keyword given twice raises TypeError, otherwise the
\* callee receives the union of both dictionaries.
CallWithKwargs(fragment, n, a, b) ==
    IF DOMAIN a \cap DOMAIN b # {}
    THEN [error |-> "TypeError", forwarded |-> FALSE,
          fragment |-> fragment, name |-> n, opts |-> NoOpts]
    ELSE [error |-> "none", forwarded |-> TRUE,
          fragment |-> fragment, name |-> n,
          opts |-> [k \in DOMAIN a \cup DOMAIN b |->
                        IF k \in DOMAIN a THEN a[k] ELSE b[k]]]

overrides == [k \in {"ecppack_opts"} |-> "--compress --freq 38.8"]

\* Faulty variant: the packer options depend on the process environment.
toolchain_prepare_ReadsEnv(fragment, n, kwargs) ==
    CallWithKwargs(fragment, n,
        [k \in {"ecppack_opts"} |->
            IF env = Unset THEN "--compress --freq 38.8" ELSE "--freq 2.4"],
        kwargs)

toolchain_prepare(fragment, n, kwargs) ==
    CallWithKwargs(fragment, n, overrides, kwargs)

Prepare(c, fragment, n, kwargs) ==
    /\ pc[c] \in {"idle", "done"}
    /\ prepIn' = [fragment |-> fragment, name |-> n, kwargs |-> kwargs]
    /\ prepOut' = toolchain_prepare(fragment, n, kwargs)
    /\ prepTick' = ~prepTick
    /\ UNCHANGED <<callVars, descVars>>

(***************************************************************************)
(* External services, as used by the three hardware operations             *)
(***************************************************************************)
Log(c, s, ok) == trace' = [trace EXCEPT ![c] = Append(@, Event(s, ok))]

Goto(c, label) == pc' = [pc EXCEPT ![c] = label]

\* An exception leaving the function: the call ends with that error.
Raise(c, err) ==
    /\ pc' = [pc EXCEPT ![c] = "done"]
    /\ result' = [result EXCEPT ![c] = err]

Return(c) ==
    /\ pc' = [pc EXCEPT ![c] = "done"]
    /\ result' = [result EXCEPT ![c] = "ok"]

\* Entry of a call: fresh locals.
Enter(c, o, prods, n, first) ==
    /\ pc[c] \in {"idle", "done"}
    /\ op' = [op EXCEPT ![c] = o]
    /\ name' = [name EXCEPT ![c] = n]
    /\ products' = [products EXCEPT ![c] = prods]
    /\ result' = [result EXCEPT ![c] = "none"]
    /\ pending' = [pending EXCEPT ![c] = "none"]
    /\ trace' = [trace EXCEPT ![c] = <<>>]
    /\ Goto(c, first)
    /\ UNCHANGED <<held, descVars, prepVars>>

\* debugger = ApolloDebugger()
ApolloDebugger(c, ok, next) ==
    /\ Log(c, "open", ok)
    /\ IF ok THEN Goto(c, next) /\ UNCHANGED result
             ELSE Raise(c, "ConnectionError")
    /\ UNCHANGED <<op, name, products, pending, held, descVars, prepVars>>

\* bitstream = products.get("{}.bit".format(name))
ProductsGet(c, next) ==
    LET found == BitFile(name[c]) \in products[c] IN
    /\ Log(c, "get", found)
    /\ IF found THEN Goto(c, next) /\ UNCHANGED result
                ELSE Raise(c, "ArtifactNotFound")
    /\ UNCHANGED <<op, name, products, pending, held, descVars, prepVars>>

\* Faulty variant: a busy channel is not noticed and the body runs anyway.
WithEnter_IgnoreBusy(c, channel, ok, next) ==
    /\ Log(c, "enter_" \o channel, ok)
    /\ held' = [held EXCEPT ![c] = channel]
    /\ Goto(c, next)
    /\ UNCHANGED <<op, name, products, result, pending, descVars, prepVars>>

\* with debugger.<channel> as ...:   (__enter__)
WithEnter(c, channel, ok, next) ==
    /\ Log(c, "enter_" \o channel, ok)
    /\ IF ok
       THEN /\ held' = [held EXCEPT ![c] = channel]
            /\ Goto(c, next)
            /\ UNCHANGED result
       ELSE /\ Raise(c, "ChannelBusy")
            /\ UNCHANGED held
    /\ UNCHANGED <<op, name, products, pending, descVars, prepVars>>

\* The single statement inside a with-body: a mutation of the hardware.
\* An exception raised there is in flight until __exit__ has run.
WithBody(c, step, ok, err, next) ==
    /\ Log(c, step, ok)
    /\ pending' = [pending EXCEPT ![c] = IF ok THEN "none" ELSE err]
    /\ Goto(c, next)
    /\ UNCHANGED <<op, name, products, result, held, descVars, prepVars>>

\* Faulty variant: __exit__ does not give the channel back.
WithExit_KeepsChannel(c, next) ==
    /\ Log(c, "exit_" \o held[c], TRUE)
    /\ IF pending[c] = "none"
       THEN IF next = "done" THEN Return(c) ELSE Goto(c, next) /\ UNCHANGED result
       ELSE Raise(c, pending[c])
    /\ pending' = [pending EXCEPT ![c] = "none"]
    /\ UNCHANGED <<op, name, products, held, descVars, prepVars>>

\* Faulty variant: __exit__ suppresses the exception raised in the body.
WithExit_Suppress(c, next) ==
    /\ Log(c, "exit_" \o held[c], TRUE)
    /\ held' = [held EXCEPT ![c] = "none"]
    /\ IF next = "done" THEN Return(c) ELSE Goto(c, next) /\ UNCHANGED result
    /\ pending' = [pending EXCEPT ![c] = "none"]
    /\ UNCHANGED <<op, name, products, descVars, prepVars>>

\* End of a with-block (__exit__): the channel is released, then the
\* exception in flight, if any, leaves the function.
WithExit(c, next) ==
    /\ Log(c, "exit_" \o held[c], TRUE)
    /\ held' = [held EXCEPT ![c] = "none"]
    /\ IF pending[c] = "none"
       THEN IF next = "done" THEN Return(c) ELSE Goto(c, next) /\ UNCHANGED result
       ELSE Raise(c, pending[c])
    /\ pending' = [pending EXCEPT ![c] = "none"]
    /\ UNCHANGED <<op, name, products, descVars, prepVars>>

\* Faulty variant: a failure of the repair is dropped and the call goes on.
EnsureFlashGatewareLoaded_Ignored(c, reprogram, ok, next) ==
    /\ trace' = [trace EXCEPT ![c] =
            IF reprogram
            THEN Append(Append(@, Event("reprogram", ok)), Event("repair", ok))
            ELSE Append(@, Event("repair", ok))]
    /\ Goto(c, next)
    /\ UNCHANGED <<op, name, products, result, pending, held, descVars, prepVars>>

\* ensure_flash_gateware_loaded(debugger, platform=self.__class__())
\* reprogram: the helper found the controller gateware stale and loaded it.
EnsureFlashGatewareLoaded(c, reprogram, ok, next) ==
    /\ trace' = [trace EXCEPT ![c] =
            IF reprogram
            THEN Append(Append(@, Event("reprogram", ok)), Event("repair", ok))
            ELSE Append(@, Event("repair", ok))]
    /\ IF ok THEN Goto(c, next) /\ UNCHANGED result
             ELSE Raise(c, "PreconditionRepairFailed")
    /\ UNCHANGED <<op, name, products, pending, held, descVars, prepVars>>

\* debugger.soft_reset()
SoftReset(c, ok) ==
    /\ Log(c, "soft_reset", ok)
    /\ IF ok THEN Return(c) ELSE Raise(c, "ResetError")
    /\ UNCHANGED <<op, name, products, pending, held, descVars, prepVars>>

(***************************************************************************)
(* toolchain_program(products, name)                                       *)
(***************************************************************************)
StartProgram(c, prods, n) == Enter(c, "program", prods, n, "program_connect")

ProgramConnect(c, ok) ==
    /\ pc[c] = "program_connect"
    /\ ApolloDebugger(c, ok, "program_get")

\* Faulty variant: configure is issued without entering the JTAG channel.
ProgramGet_SkipEnter(c) ==
    /\ pc[c] = "program_get"
    /\ ProductsGet(c, "program_configure")

ProgramGet(c) ==
    /\ pc[c] = "program_get"
    /\ ProductsGet(c, "program_enter")

ProgramEnter(c, ok) ==
    /\ pc[c] = "program_enter"
    /\ WithEnter(c, "jtag", ok, "program_configure")

\* Faulty variant: a failed configure is attempted a second time.
ProgramConfigure_Retry(c, ok) ==
    /\ pc[c] = "program_configure"
    /\ WithBody(c, "configure", ok, "ProgramError",
                IF ok \/ Count(c, "configure") >= 1
                THEN "program_exit" ELSE "program_configure")

ProgramConfigure(c, ok) ==
    /\ pc[c] = "program_configure"
    /\ WithBody(c, "configure", ok, "ProgramError", "program_exit")

ProgramExit(c) ==
    /\ pc[c] = "program_exit"
    /\ WithExit(c, "done")

(***************************************************************************)
(* toolchain_flash(products, name="top")                                   *)
(***************************************************************************)
StartFlash(c, prods, n) ==
    Enter(c, "flash", prods, IF n = NoArg THEN "top" ELSE n, "flash_connect")

\* Faulty variant: the artifact is fetched right after the connection.
FlashConnect_SkipEnsure(c, ok) ==
    /\ pc[c] = "flash_connect"
    /\ ApolloDebugger(c, ok, "flash_get")

FlashConnect(c, ok) ==
    /\ pc[c] = "flash_connect"
    /\ ApolloDebugger(c, ok, "flash_ensure")

\* Faulty variant: building the platform for the repair (self.__class__())
\* resolves the speed grade from the environment again.
FlashEnsure_RereadsEnv(c, reprogram, ok) ==
    /\ pc[c] = "flash_ensure"
    /\ trace' = [trace EXCEPT ![c] =
            IF reprogram
            THEN Append(Append(@, Event("reprogram", ok)), Event("repair", ok))
            ELSE Append(@, Event("repair", ok))]
    /\ IF ok THEN Goto(c, "flash_get") /\ UNCHANGED result
             ELSE Raise(c, "PreconditionRepairFailed")
    /\ speed' = ClassBodySpeed(env)
    /\ UNCHANGED <<op, name, products, pending, held, env, prepVars>>

FlashEnsure(c, reprogram, ok) ==
    /\ pc[c] = "flash_ensure"
    /\ EnsureFlashGatewareLoaded(c, reprogram, ok, "flash_get")

FlashGet(c) ==
    /\ pc[c] = "flash_get"
    /\ ProductsGet(c, "flash_enter")

FlashEnter(c, ok) ==
    /\ pc[c] = "flash_enter"
    /\ WithEnter(c, "flash", ok, "flash_program")

\* Faulty variant: the soft reset is issued inside the with-block.
FlashProgram_ResetInside(c, ok) ==
    /\ pc[c] = "flash_program"
    /\ WithBody(c, "program", ok, "FlashError", "flash_reset")

FlashProgram(c, ok) ==
    /\ pc[c] = "flash_program"
    /\ WithBody(c, "program", ok, "FlashError", "flash_exit")

FlashExit(c) ==
    /\ pc[c] = "flash_exit"
    /\ WithExit(c, "flash_reset")

FlashReset(c, ok) ==
    /\ pc[c] = "flash_reset"
    /\ SoftReset(c, ok)

(***************************************************************************)
(* toolchain_erase()                                                       *)
(***************************************************************************)
StartErase(c) == Enter(c, "erase", {}, NoArg, "erase_connect")

\* Faulty variant: erase goes for the flash channel without the repair.
EraseConnect_SkipEnsure(c, ok) ==
    /\ pc[c] = "erase_connect"
    /\ ApolloDebugger(c, ok, "erase_enter")

EraseConnect(c, ok) ==
    /\ pc[c] = "erase_connect"
    /\ ApolloDebugger(c, ok, "erase_ensure")

EraseEnsure(c, reprogram, ok) ==
    /\ pc[c] = "erase_ensure"
    /\ EnsureFlashGatewareLoaded(c, reprogram, ok, "erase_enter")

EraseEnter(c, ok) ==
    /\ pc[c] = "erase_enter"
    /\ WithEnter(c, "flash", ok, "erase_erase")

EraseErase(c, ok) ==
    /\ pc[c] = "erase_erase"
    /\ WithBody(c, "erase", ok, "FlashError", "erase_exit")

\* Faulty variant: erase returns right after the with-block.
EraseExit_NoReset(c) ==
    /\ pc[c] = "erase_exit"
    /\ WithExit(c, "done")

EraseExit(c) ==
    /\ pc[c] = "erase_exit"
    /\ WithExit(c, "erase_reset")

EraseReset(c, ok) ==
    /\ pc[c] = "erase_reset"
    /\ SoftReset(c, ok)

(***************************************************************************)
(* The process environment                                                 *)
(***************************************************************************)
\* Something in the process changes LUNA_SPEED_GRADE after the class exists.
SetEnv(v) ==
    /\ v # env
    /\ env' = v
    /\ UNCHANGED <<speed, callVars, prepVars>>

(***************************************************************************)
(* Specification                                                           *)
(***************************************************************************)
Init ==
    /\ env \in EnvValues
    /\ speed = ClassBodySpeed(env)
    /\ pc = [c \in Callers |-> "idle"]
    /\ op = [c \in Callers |-> "none"]
    /\ name = [c \in Callers |-> NoArg]
    /\ products = [c \in Callers |-> {}]
    /\ result = [c \in Callers |-> "none"]
    /\ pending = [c \in Callers |-> "none"]
    /\ held = [c \in Callers |-> "none"]
    /\ trace = [c \in Callers |-> <<>>]
    /\ prepIn = [fragment |-> "fragA", name |-> "top", kwargs |-> NoOpts]
    /\ prepOut = toolchain_prepare("fragA", "top", NoOpts)
    /\ prepTick = FALSE

DoPrepare(c) ==
    \E f \in Fragments, n \in Names, kw \in KwargSets : Prepare(c, f, n, kw)

DoStartProgram(c) ==
    \E prods \in ProductSets, n \in Names : StartProgram(c, prods, n)

DoProgramConnect(c) == \E ok \in BOOLEAN : ProgramConnect(c, ok)

DoProgramEnter(c) == \E ok \in BOOLEAN : ProgramEnter(c, ok)

DoProgramConfigure(c) == \E ok \in BOOLEAN : ProgramConfigure(c, ok)

DoStartFlash(c) ==
    \E prods \in ProductSets, n \in Names \cup {NoArg} : StartFlash(c, prods, n)

DoFlashConnect(c) == \E ok \in BOOLEAN : FlashConnect(c, ok)

DoFlashEnsure(c) == \E r, ok \in BOOLEAN : FlashEnsure(c, r, ok)

DoFlashEnter(c) == \E ok \in BOOLEAN : FlashEnter(c, ok)

DoFlashProgram(c) == \E ok \in BOOLEAN : FlashProgram(c, ok)

DoFlashReset(c) == \E ok \in BOOLEAN : FlashReset(c, ok)

DoEraseConnect(c) == \E ok \in BOOLEAN : EraseConnect(c, ok)

DoEraseEnsure(c) == \E r, ok \in BOOLEAN : EraseEnsure(c, r, ok)

DoEraseEnter(c) == \E ok \in BOOLEAN : EraseEnter(c, ok)

DoEraseErase(c) == \E ok \in BOOLEAN : EraseErase(c, ok)

DoEraseReset(c) == \E ok \in BOOLEAN : EraseReset(c, ok)

DoSetEnv == \E v \in EnvValues : SetEnv(v)

\* The steps of the three hardware operations of one caller.
HardwareNext(c) ==
    \/ DoStartProgram(c)
    \/ DoProgramConnect(c)
    \/ ProgramGet(c)
    \/ DoProgramEnter(c)
    \/ DoProgramConfigure(c)
    \/ ProgramExit(c)
    \/ DoStartFlash(c)
    \/ DoFlashConnect(c)
    \/ DoFlashEnsure(c)
    \/ FlashGet(c)
    \/ DoFlashEnter(c)
    \/ DoFlashProgram(c)
    \/ FlashExit(c)
    \/ DoFlashReset(c)
    \/ StartErase(c)
    \/ DoEraseConnect(c)
    \/ DoEraseEnsure(c)
    \/ DoEraseEnter(c)
    \/ DoEraseErase(c)
    \/ EraseExit(c)
    \/ DoEraseReset(c)

CallerNext(c) ==
    \/ DoPrepare(c)
    \/ HardwareNext(c)

Next ==
    \/ CallerNext(MainCaller)
    \/ DoSetEnv

Spec == Init /\ [][Next]_vars

\* Two callers running hardware operations against the same board, their
\* steps interleaved in any way (the functions take no lock).
NextConc == \E c \in Callers : HardwareNext(c)

SpecConc == Init /\ [][NextConc]_vars

(***************************************************************************)
(* Derived observations of one call                                        *)
(***************************************************************************)
HardwareOps == {"program", "flash", "erase"}

Finished(c) == pc[c] = "done" /\ op[c] \in HardwareOps

Succeeded(c) == Finished(c) /\ result[c] = "ok"

\* Successful ApolloDebugger() constructions / releases of that connection.
ConnOpens(c) ==
    Cardinality({i \in 1..Len(trace[c]) :
                    trace[c][i].step = "open" /\ trace[c][i].ok})

ConnCloses(c) == Count(c, "close")

\* Successful __enter__ of a sub-channel / __exit__ of a sub-channel.
ChanAcquires(c, ch) ==
    Cardinality({i \in 1..Len(trace[c]) :
                    trace[c][i].step = "enter_" \o ch /\ trace[c][i].ok})

ChanReleases(c, ch) == Count(c, "exit_" \o ch)

\* The call's trace contains step s with outcome "raised".
StepFailed(c, s) ==
    \E i \in 1..Len(trace[c]) : trace[c][i].step = s /\ ~trace[c][i].ok

\* The artifact the call asks for is not among its products.
ArtifactMissing(c) == BitFile(name[c]) \notin products[c]

NotReprogram(s) == s # "reprogram"

\* Steps of the call, leaving out the optional reload done by the repair.
MainSteps(c) == SelectSeq(StepsOf(c), NotReprogram)

\* The error each external step raises with.
ErrorOf(s) ==
    CASE s = "open"        -> "ConnectionError"
      [] s = "get"         -> "ArtifactNotFound"
      [] s = "enter_jtag"  -> "ChannelBusy"
      [] s = "enter_flash" -> "ChannelBusy"
      [] s = "configure"   -> "ProgramError"
      [] s = "program"     -> "FlashError"
      [] s = "erase"       -> "FlashError"
      [] s = "repair"      -> "PreconditionRepairFailed"
      [] s = "reprogram"   -> "PreconditionRepairFailed"
      [] s = "soft_reset"  -> "ResetError"
      [] OTHER             -> "none"

\* The statements of each operation, in source order.
FullRun(o) ==
    CASE o = "program" -> <<"open", "get", "enter_jtag", "configure", "exit_jtag">>
      [] o = "flash"   -> <<"open", "repair", "get", "enter_flash", "program",
                            "exit_flash", "soft_reset">>
      [] o = "erase"   -> <<"open", "repair", "enter_flash", "erase",
                            "exit_flash", "soft_reset">>
      [] OTHER         -> <<>>

(***************************************************************************)
(* C1  Acquire / release balance                                           *)
(***************************************************************************)
\* C1: when program, flash or erase has returned (normally or with an
\* error), every acquisition of the debug connection and of the jtag / flash
\* sub-channel made by the call has been matched by a release.
C1_AcquireReleaseBalanced ==
    \A c \in Callers :
        Finished(c) =>
            /\ ConnOpens(c) = ConnCloses(c)
            /\ held[c] = "none"
            /\ ChanAcquires(c, "jtag") = ChanReleases(c, "jtag")
            /\ ChanAcquires(c, "flash") = ChanReleases(c, "flash")

(***************************************************************************)
(* C2  Soft resets                                                         *)
(***************************************************************************)
\* C2: a program call never issues a soft reset, whether it succeeds or
\* fails; a flash or erase call that returned successfully has issued
\* exactly one soft reset.
C2_SoftResetCount ==
    \A c \in Callers :
        /\ op[c] = "program" => Count(c, "soft_reset") = 0
        /\ (Succeeded(c) /\ op[c] \in {"flash", "erase"})
              => Count(c, "soft_reset") = 1

C2_Witness ==
    \E c \in Callers :
        /\ Succeeded(c) /\ op[c] = "erase"
        /\ Count(c, "soft_reset") = 1

C4_MissingArtifactOpensNothing ==
    \A c \in Callers :
        (Finished(c) /\ op[c] = "program" /\ ArtifactMissing(c)
                     /\ FailedSteps(c) \subseteq {"get"}) =>
            /\ result[c] = "ArtifactNotFound"
            /\ ConnOpens(c) = 0
            /\ Count(c, "configure") = 0

(***************************************************************************)
(* C5  flash with a missing artifact                                       *)
(***************************************************************************)
\* C5: a flash call whose products hold no "<name>.bit" (nothing else
\* being wrong) reports the resolution error with no partial action: the
\* precondition repair has not run, no connection or flash channel was
\* acquired, no flash write and no soft reset was issued.
C5_MissingArtifactNoPartialAction ==
    \A c \in Callers :
        (Finished(c) /\ op[c] = "flash" /\ ArtifactMissing(c)
                     /\ FailedSteps(c) \subseteq {"get"}) =>
            /\ result[c] = "ArtifactNotFound"
            /\ Count(c, "repair") = 0
            /\ Count(c, "reprogram") = 0
            /\ ConnOpens(c) = 0
            /\ Count(c, "enter_flash") = 0
            /\ Count(c, "program") = 0
            /\ Count(c, "soft_reset") = 0

(***************************************************************************)
(* C6  Step order of a successful flash                                    *)
(***************************************************************************)
\* Release of what the call holds: of the connection, or (read generously)
\* of the flash channel.
C6_ReleaseBefore(c, s) == Before(c, "close", s) \/ Before(c, "exit_flash", s)

\* C6 (as stated): a successful flash resolves the artifact, then runs the
\* precondition repair, then acquires the connection, then selects the
\* flash channel, then writes once, then releases, then soft-resets.
C6_StatedOrder ==
    \A c \in Callers :
        (Succeeded(c) /\ op[c] = "flash") =>
            /\ Before(c, "get", "repair")
            /\ Before(c, "repair", "open")
            /\ Before(c, "open", "enter_flash")
            /\ Before(c, "enter_flash", "program")
            /\ Count(c, "program") = 1
            /\ C6_ReleaseBefore(c, "soft_reset")

\* C6 (amended): a successful flash has issued exactly: connection opened,
\* precondition repair, artifact resolved, flash channel selected, one
\* erase+write, flash channel released, soft reset - in that order.
C6_CodeOrder ==
    \A c \in Callers :
        (Succeeded(c) /\ op[c] = "flash") =>
            /\ MainSteps(c) = <<"open", "repair", "get", "enter_flash",
                                "program", "exit_flash", "soft_reset">>
            /\ Count(c, "reprogram") <= 1
            /\ Count(c, "reprogram") = 1 =>
                   /\ Before(c, "open", "reprogram")
                   /\ Before(c, "reprogram", "repair")

C6_Witness ==
    \E c \in Callers :
        /\ Succeeded(c) /\ op[c] = "flash"
        /\ Count(c, "reprogram") = 1
        /\ Before(c, "repair", "get")
        /\ Before(c, "exit_flash", "soft_reset")

(***************************************************************************)
(* C7  Transport errors                                                    *)
(***************************************************************************)
\* The call ended because the probe was unreachable or the channel busy.
TransportFailure(c) ==
    /\ Finished(c)
    /\ \/ StepFailed(c, "open")
       \/ StepFailed(c, "enter_jtag")
       \/ StepFailed(c, "enter_flash")

\* C7 (as stated): a call that ended with a transport error has mutated no
\* hardware state: no configure, flash write, erase, reload by the repair
\* or soft reset.
C7_TransportNoMutation ==
    \A c \in Callers :
        TransportFailure(c) =>
            /\ Count(c, "configure") = 0
            /\ Count(c, "program") = 0
            /\ Count(c, "erase") = 0
            /\ Count(c, "reprogram") = 0
            /\ Count(c, "soft_reset") = 0

\* C7 (amended): a call that ended with a transport error has issued no
\* configure, flash write, erase or soft reset; the repair has reloaded
\* nothing if the call is a program or the probe was unreachable.  (A flash
\* or erase that finds the flash channel busy may already have had the
\* controller reloaded by the repair.)
C7_TransportNoWrite ==
    \A c \in Callers :
        TransportFailure(c) =>
            /\ result[c] \in {"ConnectionError", "ChannelBusy"}
            /\ Count(c, "configure") = 0
            /\ Count(c, "program") = 0
            /\ Count(c, "erase") = 0
            /\ Count(c, "soft_reset") = 0
            /\ (op[c] = "program" \/ StepFailed(c, "open"))
                   => Count(c, "reprogram") = 0

C7_Witness ==
    \E c \in Callers :
        /\ TransportFailure(c) /\ op[c] = "erase"
        /\ StepFailed(c, "enter_flash")
        /\ Count(c, "reprogram") = 1
        /\ Count(c, "erase") = 0

(***************************************************************************)
(* C8  No error is swallowed                                               *)
(***************************************************************************)
\* C8: a call returns success only if every statement of the operation ran
\* and none raised; a step that raised ends the call with that step's
\* error.  When the precondition repair fails in flash or erase, the call
\* ends with that failure, no flash channel was acquired, nothing was
\* written or erased, and no soft reset was issued.
C8_NoErrorSwallowed ==
    \A c \in Callers :
        Finished(c) =>
            /\ result[c] = "ok" <=> FailedSteps(c) = {}
            /\ result[c] = "ok" => MainSteps(c) = FullRun(op[c])
            /\ \A s \in FailedSteps(c) : result[c] = ErrorOf(s)
            /\ StepFailed(c, "repair") =>
                   /\ result[c] = "PreconditionRepairFailed"
                   /\ Count(c, "enter_flash") = 0
                   /\ Count(c, "program") = 0
                   /\ Count(c, "erase") = 0
                   /\ Count(c, "soft_reset") = 0

C8_Witness ==
    \E c \in Callers :
        /\ Finished(c) /\ op[c] = "flash"
        /\ StepFailed(c, "repair")
        /\ result[c] = "PreconditionRepairFailed"

(***************************************************************************)
(* C9  Board-mandated packer options                                       *)
(***************************************************************************)
\* C9: whatever options the caller passes to prepare, the options forwarded
\* to the base prepare contain ecppack_opts with the board's value
\* (--compress, --freq 38.8); no caller option replaces or removes it.
C9_MandatedOptionsKept ==
    prepOut.forwarded =>
        /\ "ecppack_opts" \in DOMAIN prepOut.opts
        /\ prepOut.opts["ecppack_opts"] = "--compress --freq 38.8"

C9_Witness ==
    /\ prepTick
    /\ prepOut.forwarded
    /\ "nextpnr_opts" \in DOMAIN prepIn.kwargs
    /\ prepIn.kwargs["nextpnr_opts"] = "--freq 2.4"
    /\ prepOut.opts["nextpnr_opts"] = "--freq 2.4"
    /\ prepOut.opts["ecppack_opts"] = "--compress --freq 38.8"

(***************************************************************************)
(* C10  prepare is pure                                                    *)
(***************************************************************************)
\* C10: a prepare call changes nothing of the hardware calls' state (no
\* connection, channel, configure / program / erase, soft reset) nor of the
\* descriptor, and a prepare call with the same fragment, name and options
\* as the previous one yields the same forwarded options.
C10_PrepareIsPure ==
    [][(prepTick' # prepTick) =>
          /\ UNCHANGED <<callVars, descVars>>
          /\ (prepIn' = prepIn => prepOut' = prepOut)]_vars

C10_Witness ==
    /\ ~prepTick
    /\ prepIn.kwargs # NoOpts
    /\ prepOut.forwarded
    /\ \E c \in Callers : Succeeded(c)
    /\ env # Unset

(***************************************************************************)
(* C11  No automatic retry                                                 *)
(***************************************************************************)
MutationSteps == {"configure", "program", "erase"}

\* C11: within one call the hardware mutation (configure in program, the
\* flash write in flash, the erase in erase) is issued at most once; once it
\* has failed, the call ends with its error and nothing is issued after it
\* but the release of the channel.
C11_NoRetry ==
    \A c \in Callers :
        /\ \A s \in MutationSteps : Count(c, s) <= 1
        /\ \A i \in 1..Len(trace[c]) :
              (trace[c][i].step \in MutationSteps /\ ~trace[c][i].ok) =>
                  /\ \A j \in (i+1)..Len(trace[c]) :
                        trace[c][j].step \in {"exit_jtag", "exit_flash"}
                  /\ Finished(c) => result[c] = ErrorOf(trace[c][i].step)

C11_Witness ==
    \E c \in Callers :
        /\ Finished(c) /\ op[c] = "program"
        /\ StepFailed(c, "configure")
        /\ Count(c, "configure") = 1
        /\ result[c] = "ProgramError"

(***************************************************************************)
(* C12  Two callers                                                        *)
(***************************************************************************)
\* The call of caller c is in progress.
Running(c) == pc[c] \notin {"idle", "done"}

\* The running call of c has created its ApolloDebugger connection.
HoldsConnection(c) == Running(c) /\ ConnOpens(c) >= 1

Holders == {c \in Callers : HoldsConnection(c) \/ held[c] # "none"}

\* C12 (as stated): however the calls of two callers interleave, at most one
\* call holds the debug connection or one of its sub-channels at any time.
C12_AtMostOneHolder == Cardinality(Holders) <= 1

\* C12 (amended): a caller holds a sub-channel only while its own call is
\* running inside its with-block; so whenever at most one call is running
\* (the callers are serialized from outside) at most one call holds the
\* connection or a sub-channel.
C12_HeldOnlyWhileRunning ==
    /\ \A c \in Callers :
          held[c] # "none" =>
              pc[c] \in {"program_configure", "program_exit",
                         "flash_program", "flash_exit",
                         "erase_erase", "erase_exit"}
    /\ Cardinality({c \in Callers : Running(c)}) <= 1
          => Cardinality(Holders) <= 1

C12_Witness ==
    \E c, d \in Callers :
        /\ c # d
        /\ Succeeded(d) /\ op[d] = "program"
        /\ held[c] = "flash"
        /\ Holders = {c}

(***************************************************************************)
(* C13  Speed grade                                                        *)
(***************************************************************************)
\* C13: the speed grade is resolved from LUNA_SPEED_GRADE once, when the
\* descriptor comes into being ("8" if the variable is absent); no later
\* step - a change of the variable, prepare, program, flash or erase -
\* changes it.
C13_SpeedResolvedOnce ==
    /\ speed = (IF env = Unset THEN "8" ELSE env)
    /\ [][speed' = speed]_vars

C13_Witness ==
    /\ env = "6"
    /\ speed = "8"
    /\ prepTick
    /\ \E c \in Callers : Succeeded(c) /\ op[c] = "flash"

(***************************************************************************)
(* C14  Pin disjointness                                                   *)
(***************************************************************************)
\* C14: over all pins of all subsignals of all resources and all non-gap
\* positions of all connectors of the r0.3 descriptor, no physical pin is
\* named twice.
C14_PinsDisjoint ==
    LET pins == Descriptor.pins IN
    Cardinality({pins[site] : site \in DOMAIN pins}) = Cardinality(DOMAIN pins)

C14_Witness ==
    /\ Descriptor.speed = "8"
    /\ Cardinality(DOMAIN Descriptor.pins) = 92
    /\ Cardinality(ResourceSites) = 76
    /\ Cardinality(ConnectorSites) = 16
    /\ \E s \in ResourceSites : Len(resources[s[2]].subsignals) > 1 /\ s[4] > 1
    /\ \E i \in 1..Len(connectors) : \E k \in 1..Len(connectors[i].io) :
           connectors[i].io[k] = "-"

(***************************************************************************)
(* C15  Step order of erase                                                *)
(***************************************************************************)
\* Event i of the call of c was issued while channel ch was held: a
\* successful enter of ch precedes it with no exit of ch in between.
IssuedInside(c, i, ch) ==
    \E e \in 1..(i-1) :
        /\ trace[c][e].step = "enter_" \o ch /\ trace[c][e].ok
        /\ \A x \in (e+1)..(i-1) : trace[c][x].step # "exit_" \o ch

NotOpen(s) == s # "open"

\* C15: a successful erase has run the precondition repair, then acquired
\* the flash channel, then issued exactly one erase while holding it, then
\* released the channel, then issued the soft reset.  An erase call never
\* issues a flash write or a configure.  When the erase step fails, the
\* channel is released and no soft reset is issued.
C15_EraseOrder ==
    \A c \in Callers :
        op[c] = "erase" =>
            /\ Count(c, "program") = 0
            /\ Count(c, "configure") = 0
            /\ \A i \in 1..Len(trace[c]) :
                  trace[c][i].step = "erase" => IssuedInside(c, i, "flash")
            /\ Succeeded(c) =>
                  SelectSeq(MainSteps(c), NotOpen) =
                      <<"repair", "enter_flash", "erase", "exit_flash", "soft_reset">>
            /\ (Finished(c) /\ StepFailed(c, "erase")) =>
                  /\ held[c] = "none"
                  /\ ChanReleases(c, "flash") = 1
                  /\ Count(c, "soft_reset") = 0
                  /\ result[c] # "ok"

C15_Witness ==
    \E c \in Callers :
        /\ Finished(c) /\ op[c] = "erase"
        /\ StepFailed(c, "erase")
        /\ ChanReleases(c, "flash") = 1
        /\ result[c] = "FlashError"

EnterSteps == {"enter_jtag", "enter_flash"}

ExitSteps == {"exit_jtag", "exit_flash"}

\* Number of sub-channels held after the first i events of the call of c.
HeldAfter(c, i) ==
    Cardinality({e \in 1..i : trace[c][e].step \in EnterSteps /\ trace[c][e].ok})
    - Cardinality({e \in 1..i : trace[c][e].step \in ExitSteps})

\* C17: at every point of a call at most one sub-channel is held; program
\* selects only the JTAG channel and never runs the precondition repair;
\* flash and erase select only the flash channel; a soft reset is never
\* issued while a sub-channel is held.
C17_ChannelDiscipline ==
    \A c \in Callers :
        /\ \A i \in 0..Len(trace[c]) : HeldAfter(c, i) \in {0, 1}
        /\ held[c] # "none" <=> HeldAfter(c, Len(trace[c])) = 1
        /\ op[c] = "program" =>
              /\ held[c] \in {"none", "jtag"}
              /\ Count(c, "enter_flash") = 0
              /\ Count(c, "repair") = 0
              /\ Count(c, "reprogram") = 0
        /\ op[c] \in {"flash", "erase"} =>
              /\ held[c] \in {"none", "flash"}
              /\ Count(c, "enter_jtag") = 0
        /\ \A i \in 1..Len(trace[c]) :
              trace[c][i].step = "soft_reset" => HeldAfter(c, i - 1) = 0
        /\ pc[c] \in {"flash_reset", "erase_reset"} => held[c] = "none"

C17_Witness ==
    \E c \in Callers :
        /\ op[c] = "flash" /\ pc[c] = "done"
        /\ Count(c, "soft_reset") = 1
        /\ StepFailed(c, "soft_reset")
        /\ ChanReleases(c, "flash") = 1

(***************************************************************************)
(* C18  Caller passes ecppack_opts                                         *)
(***************************************************************************)
\* C18: when the caller passes its own ecppack_opts to prepare, the call
\* raises (the keyword reaches the base prepare twice) and forwards
\* nothing; otherwise the base prepare receives the fragment, the name,
\* ecppack_opts = '--compress --freq 38.8' and every caller option with the
\* caller's value, and nothing else.
C18_DuplicateKeywordRaises ==
    /\ "ecppack_opts" \in DOMAIN prepIn.kwargs =>
          /\ prepOut.error = "TypeError"
          /\ ~prepOut.forwarded
    /\ "ecppack_opts" \notin DOMAIN prepIn.kwargs =>
          /\ prepOut.error = "none"
          /\ prepOut.forwarded
          /\ prepOut.fragment = prepIn.fragment
          /\ prepOut.name = prepIn.name
          /\ DOMAIN prepOut.opts = DOMAIN prepIn.kwargs \cup {"ecppack_opts"}
          /\ prepOut.opts["ecppack_opts"] = "--compress --freq 38.8"
          /\ \A k \in DOMAIN prepIn.kwargs : prepOut.opts[k] = prepIn.kwargs[k]

C18_Witness ==
    /\ prepTick
    /\ "ecppack_opts" \in DOMAIN prepIn.kwargs
    /\ prepIn.kwargs["ecppack_opts"] = "--compress --freq 38.8"
    /\ prepOut.error = "TypeError"

====
